---- MODULE Spec2Model ----
(***************************************************************************)
(* Personal Finance Dashboard (finance_dashboard.py): the FinanceDB store   *)
(* (users and transactions tables), the Streamlit session state and the    *)
(* script's button handlers, as a state machine.                           *)
(*                                                                         *)
(* Two specifications:                                                     *)
(*   SpecDB  the FinanceDB methods called directly, with any arguments;    *)
(*   Spec    the page: several browser sessions clicking its buttons.      *)
(*                                                                         *)
(* Amounts are whole cents.  A date column holds the ISO text the sqlite3  *)
(* date adapter stores, as a sequence of character codes.  An optional     *)
(* value (Python None / a value) is <<>> / <<v>>.                          *)
(***************************************************************************)
EXTENDS Integers, Sequences, FiniteSets, TLC

VARIABLES
    users,            \* table users, in rowid order
    transactions,     \* table transactions, in rowid order
    sqlite_sequence,  \* AUTOINCREMENT: the largest id ever given, per table
    session_state,    \* per session: logged_in, user_id, username
    view,             \* per session: the page its last script run rendered
    pc,               \* per session: "idle", or "sample" inside the sample loop
    sample_idx,       \* per session: next index of sample_data to insert
    created,          \* history: credentials for which create_user returned True
    alone,            \* history: no other session wrote this user's rows during the sample loop
    calls,            \* history: the bounded counters of the model
    lastOp            \* history: the last operation, its arguments and its result

vars == <<users, transactions, sqlite_sequence, session_state, view, pc,
          sample_idx, created, alone, calls, lastOp>>

dbVars == <<users, transactions, sqlite_sequence>>
uiVars == <<session_state, view, pc, sample_idx, alone>>

----------------------------------------------------------------------------
(* Bounds of the model *)

\* direct add_transaction calls (SpecDB)
MaxApiTx == 3
\* accepted Add Transaction clicks (Spec)
MaxAdds == 1
\* delete clicks that remove a row (Spec)
MaxDeletes == 1
\* Load Sample Data loops started (Spec)
MaxSampleRuns == 2
\* steps of one session while another is inside its sample loop (Spec)
MaxSwitches == 1

Sessions == {"s1", "s2"}
\* what a browser may type; a field may also be left empty
Usernames == {"alice"}
Passwords == {"abc", "secret1"}
\* (year, month, day)
Dates == {<<2024, 1, 15>>}
\* cents; the widget's min_value is the browser's, the handler's guard is the code's
Amounts == {-100, 0, 20000}
Descriptions == {""}

\* what a direct caller may pass
DbUsernames == {"alice", "bob"}
DbPasswords == {"secret1", "hunter22"}
\* user ids, of existing users or not
DbUserIds == 1..2
DbRows ==
    { [date |-> <<2023, 12, 31>>, type |-> "Income", category |-> "Salary",
       amount |-> 20000, description |-> ""],
      [date |-> <<2024, 2, 9>>, type |-> "Expense", category |-> "Food",
       amount |-> 1, description |-> "x"],
      [date |-> <<2024, 10, 1>>, type |-> "Expense", category |-> "Bills",
       amount |-> 20000, description |-> ""] }

----------------------------------------------------------------------------
(* Values *)

None == <<>>
Some(v) == <<v>>
\* Python truthiness of an optional integer: `if user_id:`
Truthy(v) == v # None /\ v[1] # 0

Range(s) == {s[i] : i \in 1..Len(s)}

RECURSIVE SumAmount(_)
\* pandas Series.sum() over the amount column; 0 for no rows
SumAmount(rows) ==
    IF rows = <<>> THEN 0 ELSE Head(rows).amount + SumAmount(Tail(rows))

\* character codes
DASH == 45
ZERO == 48

\* sqlite3's default adapter for datetime.date: date.isoformat(), YYYY-MM-DD
adapt_date(d) ==
    << ZERO + (d[1] \div 1000), ZERO + ((d[1] \div 100) % 10),
       ZERO + ((d[1] \div 10) % 10), ZERO + (d[1] % 10), DASH,
       ZERO + (d[2] \div 10), ZERO + (d[2] % 10), DASH,
       ZERO + (d[3] \div 10), ZERO + (d[3] % 10) >>

\* SQLite's BINARY collation on TEXT: memcmp, then the shorter first
TextLess(a, b) ==
    LET n == IF Len(a) < Len(b) THEN Len(a) ELSE Len(b)
        differ == {i \in 1..n : a[i] # b[i]}
    IN IF differ = {}
       THEN Len(a) < Len(b)
       ELSE LET i == CHOOSE j \in differ : \A k \in differ : j <= k
            IN a[i] < b[i]

\* hashlib.sha256(password.encode()).hexdigest(), its first 12 hex digits
hash_password(password) ==
    CASE password = "" -> "e3b0c44298fc"
      [] password = "abc" -> "ba7816bf8f01"
      [] password = "secret1" -> "5b11618c2e44"
      [] password = "hunter22" -> "20d2fe5e369d"

----------------------------------------------------------------------------
(* FinanceDB *)

\* username TEXT UNIQUE NOT NULL: the INSERT raises sqlite3.IntegrityError
IntegrityError(tbl, username) ==
    \E i \in 1..Len(tbl) : tbl[i].username = username

\* a faulty create_user: INSERT OR REPLACE, the old row of that username is replaced
create_user_replacing(username, password) ==
    LET Others(r) == r.username # username
        row == [id |-> sqlite_sequence.users + 1, username |-> username,
                password_hash |-> hash_password(password)]
    IN [returns |-> ~IntegrityError(users, username),
        users |-> Append(SelectSeq(users, Others), row),
        seq |-> sqlite_sequence.users + 1]

\* create_user: what it returns, and the users table and sequence it leaves
create_user(username, password) ==
    LET password_hash == hash_password(password)
        row == [id |-> sqlite_sequence.users + 1, username |-> username,
                password_hash |-> password_hash]
    IN IF IntegrityError(users, username)
       THEN [returns |-> FALSE, users |-> users, seq |-> sqlite_sequence.users]
       ELSE [returns |-> TRUE, users |-> Append(users, row),
             seq |-> sqlite_sequence.users + 1]

\* a faulty verify_user: the password is compared unhashed
verify_user_unhashed(username, password) ==
    LET Match(r) == r.username = username /\ r.password_hash = password
        found == SelectSeq(users, Match)
    IN IF found = <<>> THEN None ELSE Some(found[1].id)

\* a faulty verify_user: only the username is compared
verify_user_by_name(username, password) ==
    LET Match(r) == r.username = username
        found == SelectSeq(users, Match)
    IN IF found = <<>> THEN None ELSE Some(found[1].id)

\* verify_user: the id of the first row with that username and hash, or None
verify_user(username, password) ==
    LET password_hash == hash_password(password)
        Match(r) == r.username = username /\ r.password_hash = password_hash
        found == SelectSeq(users, Match)
    IN IF found = <<>> THEN None ELSE Some(found[1].id)

\* add_transaction: the table after the INSERT (no validation at this layer)
add_transaction(tbl, seq, user_id, date, trans_type, category, amount, description) ==
    Append(tbl, [id |-> seq + 1, user_id |-> user_id, date |-> adapt_date(date),
                 type |-> trans_type, category |-> category, amount |-> amount,
                 description |-> description])

RECURSIVE InsertDesc(_, _)
\* one step of the sort: r goes after every row whose date is not less
InsertDesc(sorted, r) ==
    IF sorted = <<>> THEN <<r>>
    ELSE IF TextLess(Head(sorted).date, r.date) THEN <<r>> \o sorted
    ELSE <<Head(sorted)>> \o InsertDesc(Tail(sorted), r)

RECURSIVE OrderByDateDesc(_)
\* ORDER BY date DESC; rows of equal date stay in rowid order
OrderByDateDesc(rows) ==
    IF rows = <<>> THEN <<>>
    ELSE InsertDesc(OrderByDateDesc(SubSeq(rows, 1, Len(rows) - 1)), rows[Len(rows)])

\* SELECT id, date, type, category, amount, description
Columns(r) ==
    [id |-> r.id, date |-> r.date, type |-> r.type, category |-> r.category,
     amount |-> r.amount, description |-> r.description]

RECURSIVE Select(_)
\* the selected columns of every row
Select(rows) ==
    IF rows = <<>> THEN <<>> ELSE <<Columns(Head(rows))>> \o Select(Tail(rows))

\* a faulty get_transactions: the ORDER BY clause is missing
get_transactions_unordered(tbl, user_id) ==
    LET Owned(r) == r.user_id = user_id
    IN Select(SelectSeq(tbl, Owned))

\* get_transactions: the DataFrame's rows
get_transactions(tbl, user_id) ==
    LET Owned(r) == r.user_id = user_id
    IN Select(OrderByDateDesc(SelectSeq(tbl, Owned)))

\* a faulty delete_transaction: WHERE id = ? only
delete_transaction_any_owner(tbl, transaction_id, user_id) ==
    LET Kept(r) == r.id # transaction_id
    IN SelectSeq(tbl, Kept)

\* delete_transaction: the table after DELETE ... WHERE id = ? AND user_id = ?
delete_transaction(tbl, transaction_id, user_id) ==
    LET Kept(r) == ~(r.id = transaction_id /\ r.user_id = user_id)
    IN SelectSeq(tbl, Kept)

\* a faulty clear_all_transactions: the WHERE clause is missing
clear_all_transactions_everyone(tbl, user_id) == <<>>

\* clear_all_transactions: the table after DELETE ... WHERE user_id = ?
clear_all_transactions(tbl, user_id) ==
    LET Kept(r) == r.user_id # user_id
    IN SelectSeq(tbl, Kept)

----------------------------------------------------------------------------
(* The page *)

\* the selectbox options
TransTypes == {"Income", "Expense"}

\* the category list the selectbox offers for a type
Categories(trans_type) ==
    IF trans_type = "Expense"
    THEN <<"Food", "Transportation", "Entertainment", "Shopping", "Bills",
           "Healthcare", "Other">>
    ELSE <<"Salary", "Freelance", "Investment", "Gift", "Other">>

\* the category a click of the model chooses: the selectbox's default
CategoryChoices(trans_type) == {Head(Categories(trans_type))}

\* len(signup_password) < 6
MinPasswordLen == 6

sample_data ==
    << [date |-> <<2024, 1, 1>>, type |-> "Income", category |-> "Salary",
        amount |-> 500000, description |-> "Monthly salary"],
       [date |-> <<2024, 1, 5>>, type |-> "Expense", category |-> "Food",
        amount |-> 15000, description |-> "Groceries"],
       [date |-> <<2024, 1, 7>>, type |-> "Expense", category |-> "Transportation",
        amount |-> 8000, description |-> "Gas"],
       [date |-> <<2024, 1, 10>>, type |-> "Expense", category |-> "Entertainment",
        amount |-> 12000, description |-> "Movie and dinner"],
       [date |-> <<2024, 1, 12>>, type |-> "Expense", category |-> "Bills",
        amount |-> 20000, description |-> "Electricity"],
       [date |-> <<2024, 1, 15>>, type |-> "Income", category |-> "Freelance",
        amount |-> 80000, description |-> "Web design project"],
       [date |-> <<2024, 1, 18>>, type |-> "Expense", category |-> "Shopping",
        amount |-> 25000, description |-> "Clothes"],
       [date |-> <<2024, 1, 20>>, type |-> "Expense", category |-> "Food",
        amount |-> 20000, description |-> "Restaurant"] >>

Anonymous == [logged_in |-> FALSE, user_id |-> None, username |-> None]

\* the session state the Login handler sets
Authenticated(user_id, username) ==
    [logged_in |-> TRUE, user_id |-> user_id, username |-> Some(username)]

\* `if not st.session_state.logged_in: ... st.stop()`: the main app is reached
MainAppShown(s) == session_state[s].logged_in

\* the login/signup page is rendered
LoginPageShown(s) == ~session_state[s].logged_in

\* a faulty guard: `if amount >= 0`
AmountAccepted_zero(amount) == amount >= 0

\* `if amount > 0`
AmountAccepted(amount) == amount > 0

\* the percentage f"{(net_savings/total_income*100):.1f}%", in tenths of a percent
Percentage(net_savings, total_income) ==
    IF total_income = 0
    THEN [text |-> "nan", tenths |-> 0]
    ELSE [text |-> "pct",
          tenths |-> (2 * 1000 * net_savings + total_income) \div (2 * total_income)]

DefaultDelta == [text |-> "0%", tenths |-> 0]

\* a faulty delta: the percentage without its guard
Delta_unguarded(net_savings, total_income) ==
    Percentage(net_savings, total_income)

\* the delta shown with Net Savings
Delta(net_savings, total_income) ==
    IF total_income > 0 THEN Percentage(net_savings, total_income) ELSE DefaultDelta

\* df[df['type'] == trans_type]['amount'].sum()
TotalOfType(df, trans_type) ==
    LET OfType(r) == r.type = trans_type
    IN SumAmount(SelectSeq(df, OfType))

\* the key metrics of a DataFrame
KeyMetrics(df) ==
    LET total_income == TotalOfType(df, "Income")
        total_expenses == TotalOfType(df, "Expense")
        net_savings == total_income - total_expenses
    IN [total_income |-> total_income,
        total_expenses |-> total_expenses,
        net_savings |-> net_savings,
        delta |-> Delta(net_savings, total_income),
        count |-> Len(df)]

\* a faulty test: the sample button is rendered whatever the DataFrame holds
NoTransactions_always(df) == TRUE

\* `if len(df) == 0`
NoTransactions(df) == Len(df) = 0

LoginPage == [view |-> "login", df |-> <<>>, metrics |-> None]

\* a script run past st.stop(): the DataFrame is loaded and the body rendered
MainPage(tbl, user_id) ==
    LET df == get_transactions(tbl, user_id)
    IN IF NoTransactions(df)
       THEN [view |-> "empty", df |-> df, metrics |-> None]
       ELSE [view |-> "dashboard", df |-> df, metrics |-> Some(KeyMetrics(df))]

Uid(s) == session_state[s].user_id[1]

OwnedRows(tbl, user_id) ==
    LET Owned(r) == r.user_id = user_id
    IN SelectSeq(tbl, Owned)

\* history: a sample loop of another session is no longer alone once the rows
\* of its user change under it
Disturbed(s, tbl) ==
    [t \in Sessions |->
        IF t # s /\ pc[t] = "sample"
             /\ OwnedRows(tbl, Uid(t)) # OwnedRows(transactions, Uid(t))
        THEN FALSE ELSE alone[t]]

\* session s steps while the session of the last step is inside its sample loop
Switches(s) ==
    /\ lastOp.op \notin {"init"}
    /\ lastOp.s # s
    /\ pc[lastOp.s] = "sample"

\* the counters after a step of s
Count(s, field, n) ==
    [calls EXCEPT ![field] = @ + n,
                  !.switches = IF Switches(s) THEN @ + 1 ELSE @]

\* s may have a script run now
MayRun(s) ==
    /\ pc[s] = "idle"
    /\ Switches(s) => calls.switches < MaxSwitches

----------------------------------------------------------------------------
(* Initial state: FinanceDB() on a fresh file, and fresh sessions *)

Init ==
    /\ users = <<>>
    /\ transactions = <<>>
    /\ sqlite_sequence = [users |-> 0, transactions |-> 0]
    /\ session_state = [s \in Sessions |-> Anonymous]
    /\ view = [s \in Sessions |-> "login"]
    /\ pc = [s \in Sessions |-> "idle"]
    /\ sample_idx = [s \in Sessions |-> 1]
    /\ created = {}
    /\ alone = [s \in Sessions |-> TRUE]
    /\ calls = [adds |-> 0, deletes |-> 0, runs |-> 0, switches |-> 0]
    /\ lastOp = [op |-> "init"]

----------------------------------------------------------------------------
(* SpecDB: the FinanceDB methods called directly *)

\* history: the credentials create_user accepted
Created(r, username, password) ==
    IF r.returns
    THEN created \cup {[username |-> username, password |-> password,
                        id |-> r.users[Len(r.users)].id]}
    ELSE created

DbCreateUser(username, password) ==
    LET r == create_user(username, password) IN
    /\ users' = r.users
    /\ sqlite_sequence' = [sqlite_sequence EXCEPT !.users = r.seq]
    /\ created' = Created(r, username, password)
    /\ lastOp' = [op |-> "create_user", username |-> username,
                  password |-> password, returns |-> r.returns]
    /\ UNCHANGED <<transactions, uiVars, calls>>

DbVerifyUser(username, password) ==
    /\ lastOp' = [op |-> "verify_user", username |-> username,
                  password |-> password, returns |-> verify_user(username, password)]
    /\ UNCHANGED <<dbVars, uiVars, created, calls>>

DbAddTransaction(user_id, row) ==
    /\ sqlite_sequence.transactions < MaxApiTx
    /\ transactions' = add_transaction(transactions, sqlite_sequence.transactions,
                           user_id, row.date, row.type, row.category, row.amount,
                           row.description)
    /\ sqlite_sequence' = [sqlite_sequence EXCEPT !.transactions = @ + 1]
    /\ lastOp' = [op |-> "add_transaction", user_id |-> user_id]
    /\ UNCHANGED <<users, uiVars, created, calls>>

DbGetTransactions(user_id) ==
    /\ lastOp' = [op |-> "get_transactions", user_id |-> user_id,
                  returns |-> get_transactions(transactions, user_id)]
    /\ UNCHANGED <<dbVars, uiVars, created, calls>>

DbDeleteTransaction(transaction_id, user_id) ==
    /\ transactions' = delete_transaction(transactions, transaction_id, user_id)
    /\ lastOp' = [op |-> "delete_transaction", transaction_id |-> transaction_id,
                  user_id |-> user_id,
                  rowcount |-> Len(transactions) - Len(transactions')]
    /\ UNCHANGED <<users, sqlite_sequence, uiVars, created, calls>>

DbClearAllTransactions(user_id) ==
    /\ transactions' = clear_all_transactions(transactions, user_id)
    /\ lastOp' = [op |-> "clear_all_transactions", user_id |-> user_id,
                  rowcount |-> Len(transactions) - Len(transactions')]
    /\ UNCHANGED <<users, sqlite_sequence, uiVars, created, calls>>

NextDB ==
    \/ \E u \in DbUsernames, p \in DbPasswords : DbCreateUser(u, p)
    \/ \E u \in DbUsernames, p \in DbPasswords : DbVerifyUser(u, p)
    \/ \E uid \in DbUserIds, row \in DbRows : DbAddTransaction(uid, row)
    \/ \E uid \in DbUserIds : DbGetTransactions(uid)
    \/ \E id \in 1..MaxApiTx, uid \in DbUserIds : DbDeleteTransaction(id, uid)
    \/ \E uid \in DbUserIds : DbClearAllTransactions(uid)

SpecDB == Init /\ [][NextDB]_vars

----------------------------------------------------------------------------
(* Spec: the page.  Each action is one click and the script run it causes,  *)
(* up to and including the st.rerun() that ends it.  The sample loop is the *)
(* one handler with several committed writes: each insert is a step.        *)

\* a faulty Logout: only the flag is cleared
LoggedOut_flag_only(s) == [session_state[s] EXCEPT !.logged_in = FALSE]

\* the session state the Logout handler leaves
LoggedOut(s) == Anonymous

\* the view a script run leaves on the screen
Rendered(s, p) == [view EXCEPT ![s] = p.view]

Login(s, login_username, login_password) ==
    /\ MayRun(s)
    /\ LoginPageShown(s)
    /\ LET user_id == verify_user(login_username, login_password)
       IN /\ session_state' =
                 IF Truthy(user_id)
                 THEN [session_state EXCEPT ![s] = Authenticated(user_id, login_username)]
                 ELSE session_state
          /\ lastOp' = [op |-> "Login", s |-> s, username |-> login_username,
                        password |-> login_password, returns |-> user_id,
                        page |-> IF Truthy(user_id)
                                 THEN MainPage(transactions, user_id[1])
                                 ELSE LoginPage]
          /\ view' = Rendered(s, lastOp'.page)
    /\ calls' = Count(s, "adds", 0)
    /\ UNCHANGED <<dbVars, pc, sample_idx, created, alone>>

SignUp(s, signup_username, signup_password, signup_password_confirm) ==
    /\ MayRun(s)
    /\ LoginPageShown(s)
    /\ LET valid == /\ signup_username # "" /\ signup_password # ""
                    /\ signup_password = signup_password_confirm
                    /\ Len(signup_password) >= MinPasswordLen
           r == create_user(signup_username, signup_password)
           message ==
               IF signup_username = "" \/ signup_password = ""
               THEN "Please fill in all fields"
               ELSE IF signup_password # signup_password_confirm
               THEN "Passwords don't match"
               ELSE IF Len(signup_password) < MinPasswordLen
               THEN "Password must be at least 6 characters"
               ELSE IF r.returns THEN "Account created! Please login."
               ELSE "Username already exists"
       IN /\ users' = IF valid THEN r.users ELSE users
          /\ sqlite_sequence' =
                 IF valid THEN [sqlite_sequence EXCEPT !.users = r.seq]
                 ELSE sqlite_sequence
          /\ created' = IF valid
                        THEN Created(r, signup_username, signup_password)
                        ELSE created
          /\ lastOp' = [op |-> "SignUp", s |-> s, username |-> signup_username,
                        message |-> message, page |-> LoginPage]
    /\ calls' = Count(s, "adds", 0)
    /\ UNCHANGED <<transactions, uiVars>>

Logout(s) ==
    /\ MayRun(s)
    /\ MainAppShown(s)
    /\ session_state' = [session_state EXCEPT ![s] = LoggedOut(s)]
    /\ view' = Rendered(s, LoginPage)
    /\ lastOp' = [op |-> "Logout", s |-> s, page |-> LoginPage]
    /\ calls' = Count(s, "adds", 0)
    /\ UNCHANGED <<dbVars, pc, sample_idx, created, alone>>

AddTransaction(s, trans_type, amount, category, description, trans_date) ==
    /\ MayRun(s)
    /\ MainAppShown(s)
    /\ AmountAccepted(amount) => calls.adds < MaxAdds
    /\ transactions' =
           IF AmountAccepted(amount)
           THEN add_transaction(transactions, sqlite_sequence.transactions, Uid(s),
                    trans_date, trans_type, category, amount, description)
           ELSE transactions
    /\ sqlite_sequence' =
           IF AmountAccepted(amount)
           THEN [sqlite_sequence EXCEPT !.transactions = @ + 1]
           ELSE sqlite_sequence
    /\ lastOp' = [op |-> "AddTransaction", s |-> s, amount |-> amount,
                  accepted |-> AmountAccepted(amount),
                  page |-> MainPage(transactions', Uid(s))]
    /\ view' = Rendered(s, lastOp'.page)
    /\ alone' = Disturbed(s, transactions')
    /\ calls' = Count(s, "adds", IF AmountAccepted(amount) THEN 1 ELSE 0)
    /\ UNCHANGED <<users, session_state, pc, sample_idx, created>>

ClearAllData(s) ==
    /\ MayRun(s)
    /\ MainAppShown(s)
    /\ transactions' = clear_all_transactions(transactions, Uid(s))
    /\ lastOp' = [op |-> "ClearAllData", s |-> s,
                  page |-> MainPage(transactions', Uid(s))]
    /\ view' = Rendered(s, lastOp'.page)
    /\ alone' = Disturbed(s, transactions')
    /\ calls' = Count(s, "adds", 0)
    /\ UNCHANGED <<users, sqlite_sequence, session_state, pc, sample_idx, created>>

\* the button of a row of the DataFrame this run loaded (a click on a button
\* the run no longer renders runs no handler); the model clicks the first row's
DeleteRow(s) ==
    /\ MayRun(s)
    /\ MainAppShown(s)
    /\ view[s] = "dashboard"
    /\ calls.deletes < MaxDeletes
    /\ LET df == get_transactions(transactions, Uid(s))
       IN /\ ~NoTransactions(df)
          /\ transactions' = delete_transaction(transactions, df[1].id, Uid(s))
          /\ lastOp' = [op |-> "DeleteRow", s |-> s, id |-> df[1].id,
                        page |-> MainPage(transactions', Uid(s))]
    /\ view' = Rendered(s, lastOp'.page)
    /\ alone' = Disturbed(s, transactions')
    /\ calls' = Count(s, "deletes", 1)
    /\ UNCHANGED <<users, sqlite_sequence, session_state, pc, sample_idx, created>>

\* the click: the run loads the DataFrame, and the button is rendered, and so
\* pressed, only when it is empty; the loop then starts
LoadSampleData(s) ==
    /\ MayRun(s)
    /\ MainAppShown(s)
    /\ view[s] = "empty"
    /\ LET p == MainPage(transactions, Uid(s))
       IN lastOp' = [op |-> "LoadSampleData", s |-> s,
                     pressed |-> NoTransactions(p.df), page |-> p]
    /\ lastOp'.pressed => calls.runs < MaxSampleRuns
    /\ pc' = [pc EXCEPT ![s] = IF lastOp'.pressed THEN "sample" ELSE "idle"]
    /\ sample_idx' = [sample_idx EXCEPT ![s] = 1]
    /\ alone' = [alone EXCEPT ![s] = TRUE]
    /\ view' = Rendered(s, lastOp'.page)
    /\ calls' = Count(s, "runs", IF lastOp'.pressed THEN 1 ELSE 0)
    /\ UNCHANGED <<dbVars, session_state, created>>

\* one db.add_transaction of the loop; after the last one, st.rerun()
LoadSampleInsert(s) ==
    /\ pc[s] = "sample"
    /\ Switches(s) => calls.switches < MaxSwitches
    /\ LET trans == sample_data[sample_idx[s]]
       IN transactions' =
              add_transaction(transactions, sqlite_sequence.transactions, Uid(s),
                  trans.date, trans.type, trans.category, trans.amount,
                  trans.description)
    /\ sqlite_sequence' = [sqlite_sequence EXCEPT !.transactions = @ + 1]
    /\ LET done == sample_idx[s] = Len(sample_data)
       IN /\ sample_idx' = [sample_idx EXCEPT ![s] = IF done THEN 1 ELSE @ + 1]
          /\ pc' = [pc EXCEPT ![s] = IF done THEN "idle" ELSE "sample"]
          /\ lastOp' = [op |-> "LoadSampleInsert", s |-> s, idx |-> sample_idx[s],
                        done |-> done, alone |-> alone[s],
                        page |-> IF done THEN MainPage(transactions', Uid(s))
                                 ELSE [view |-> "empty", df |-> <<>>,
                                       metrics |-> None]]
          /\ view' = Rendered(s, lastOp'.page)
          /\ alone' = [Disturbed(s, transactions') EXCEPT
                           ![s] = IF done THEN TRUE ELSE @]
    /\ calls' = Count(s, "adds", 0)
    /\ UNCHANGED <<users, session_state, created>>

\* the download button, rendered with a non-empty DataFrame
Export(s) ==
    /\ MayRun(s)
    /\ MainAppShown(s)
    /\ view[s] = "dashboard"
    /\ lastOp' = [op |-> "Export", s |-> s,
                  file_name |-> <<"finance_data_", session_state[s].username[1], ".csv">>,
                  page |-> MainPage(transactions, Uid(s))]
    /\ lastOp'.page.view = "dashboard"
    /\ view' = Rendered(s, lastOp'.page)
    /\ calls' = Count(s, "adds", 0)
    /\ UNCHANGED <<dbVars, session_state, pc, sample_idx, created, alone>>

Next ==
    \/ \E s \in Sessions, u \in Usernames, p \in Passwords : Login(s, u, p)
    \/ \E s \in Sessions, u \in Usernames \cup {""}, p \in Passwords \cup {""} :
          \E c \in {p, "abc"} : SignUp(s, u, p, c)
    \/ \E s \in Sessions : Logout(s)
    \/ \E s \in Sessions, t \in TransTypes, a \in Amounts, desc \in Descriptions,
          d \in Dates :
          \E c \in CategoryChoices(t) : AddTransaction(s, t, a, c, desc, d)
    \/ \E s \in Sessions : ClearAllData(s)
    \/ \E s \in Sessions : DeleteRow(s)
    \/ \E s \in Sessions : LoadSampleData(s)
    \/ \E s \in Sessions : LoadSampleInsert(s)
    \/ \E s \in Sessions : Export(s)

Spec == Init /\ [][Next]_vars

----------------------------------------------------------------------------
(* Properties *)

\* pd.to_datetime on the stored text: the (year, month, day) it denotes
ParseDate(text) ==
    LET D(i) == text[i] - ZERO
    IN << 1000 * D(1) + 100 * D(2) + 10 * D(3) + D(4), 10 * D(6) + D(7),
          10 * D(9) + D(10) >>

\* calendar order
DateBefore(a, b) ==
    \/ a[1] < b[1]
    \/ a[1] = b[1] /\ a[2] < b[2]
    \/ a[1] = b[1] /\ a[2] = b[2] /\ a[3] < b[3]

StoredIds(user_id) ==
    {r.id : r \in {x \in Range(transactions) : x.user_id = user_id}}

\* C2: once create_user(username, password) has returned true, verify_user
\* with the same credentials returns the id of the row it inserted, whatever
\* was called in between.
C2_CreateThenVerify ==
    \A c \in created :
        /\ verify_user(c.username, c.password) = Some(c.id)
        /\ \E i \in 1..Len(users) :
              users[i].id = c.id /\ users[i].username = c.username

C2_Witness ==
    /\ lastOp.op = "verify_user"
    /\ lastOp.returns # None
    /\ \E c \in created :
          /\ c.username = lastOp.username
          /\ c.password = lastOp.password
          /\ lastOp.returns = Some(c.id)
    /\ Len(users) = 2
    /\ transactions # <<>>

C3_RejectedLeavesAccount ==
    (lastOp.op = "create_user" /\ ~lastOp.returns) =>
        \E c \in created :
            /\ c.username = lastOp.username
            /\ verify_user(c.username, c.password) = Some(c.id)
            /\ (lastOp.password # c.password =>
                  verify_user(lastOp.username, lastOp.password) = None)

C3_OnePerUsername ==
    \A u \in DbUsernames :
        /\ Cardinality({c \in created : c.username = u}) <= 1
        /\ Cardinality({i \in 1..Len(users) : users[i].username = u}) <= 1

C3_Step ==
    lastOp'.op = "create_user" =>
        IF \E i \in 1..Len(users) : users[i].username = lastOp'.username
        THEN /\ lastOp'.returns = FALSE
             /\ users' = users
             /\ sqlite_sequence' = sqlite_sequence
        ELSE /\ lastOp'.returns = TRUE
             /\ Len(users') = Len(users) + 1
             /\ SubSeq(users', 1, Len(users)) = users

\* C3: create_user with a username that exists returns false and leaves the
\* users table as it was (no row added, id and hash kept: the original
\* password still verifies to the original id, the rejected one to none); of
\* the calls for one username, in any order, exactly one succeeds.
C3_DuplicateRejected ==
    /\ [](C3_RejectedLeavesAccount /\ C3_OnePerUsername)
    /\ [][C3_Step]_vars

C3_Witness ==
    /\ lastOp.op = "create_user"
    /\ ~lastOp.returns
    /\ \E c \in created :
          c.username = lastOp.username /\ c.password # lastOp.password
    /\ Len(users) = 2

\* C5: get_transactions(U) returns exactly the rows stored with user_id = U,
\* each id once and none of another user, whatever the insertion order, with
\* no row's date before the date of the row after it.
C5_GetTransactions ==
    lastOp.op = "get_transactions" =>
        LET df == lastOp.returns
            U == lastOp.user_id
        IN /\ {df[i].id : i \in 1..Len(df)} = StoredIds(U)
           /\ Len(df) = Cardinality(StoredIds(U))
           /\ \A i \in 1..Len(df) :
                 \E r \in Range(transactions) :
                    /\ r.id = df[i].id
                    /\ r.user_id = U
                    /\ r.date = df[i].date
                    /\ r.type = df[i].type
                    /\ r.category = df[i].category
                    /\ r.amount = df[i].amount
                    /\ r.description = df[i].description
           /\ \A i \in 1..(Len(df) - 1) :
                 ~DateBefore(ParseDate(df[i].date), ParseDate(df[i + 1].date))

C5_Witness ==
    /\ lastOp.op = "get_transactions"
    /\ Len(lastOp.returns) >= 2
    /\ lastOp.returns[1].id > lastOp.returns[2].id
    /\ Len(transactions) > Len(lastOp.returns)

\* C6: delete_transaction(id, U) removes the one row with that id and that
\* user_id when there is one and nothing otherwise; every other row and the
\* users table stay as they were.
C6_DeleteExactlyOne ==
    [][lastOp'.op = "delete_transaction" =>
        LET hit == {i \in 1..Len(transactions) :
                       /\ transactions[i].id = lastOp'.transaction_id
                       /\ transactions[i].user_id = lastOp'.user_id}
        IN /\ users' = users
           /\ Cardinality(hit) <= 1
           /\ IF hit = {}
              THEN transactions' = transactions
              ELSE LET i == CHOOSE j \in hit : TRUE
                   IN transactions' = SubSeq(transactions, 1, i - 1)
                                        \o SubSeq(transactions, i + 1, Len(transactions))
    ]_vars

C6_Witness ==
    /\ lastOp.op = "delete_transaction"
    /\ lastOp.rowcount = 0
    /\ \E r \in Range(transactions) :
          r.id = lastOp.transaction_id /\ r.user_id # lastOp.user_id

\* C7: clear_all_transactions(U) leaves get_transactions(U) empty, and the rows
\* of every other user and the users table as they were; with no row of U it
\* changes nothing.
C7_ClearOnlyOwn ==
    [][lastOp'.op = "clear_all_transactions" =>
        LET U == lastOp'.user_id
            Others(tbl) == {r \in Range(tbl) : r.user_id # U}
        IN /\ get_transactions(transactions', U) = <<>>
           /\ Others(transactions') = Others(transactions)
           /\ Len(transactions') = Cardinality(Others(transactions))
           /\ users' = users
           /\ (StoredIds(U) = {} => transactions' = transactions)
    ]_vars

C7_Witness ==
    /\ lastOp.op = "clear_all_transactions"
    /\ lastOp.rowcount >= 2
    /\ transactions # <<>>

----------------------------------------------------------------------------
(* Properties of the page *)

DashboardOps ==
    {"Logout", "AddTransaction", "ClearAllData", "DeleteRow", "LoadSampleData",
     "LoadSampleInsert", "Export"}

AccountOps == {"Login", "SignUp"}

C1_Start == \A s \in Sessions : session_state[s] = Anonymous

C1_TwoStates ==
    \A s \in Sessions :
        \/ session_state[s] = Anonymous
        \/ /\ session_state[s].logged_in = TRUE
           /\ \E i \in 1..Len(users) :
                 /\ session_state[s].user_id = Some(users[i].id)
                 /\ session_state[s].username = Some(users[i].username)

C1_Step ==
    /\ \A s \in Sessions :
          session_state'[s] # session_state[s] =>
              \/ /\ session_state[s] = Anonymous
                 /\ lastOp'.op = "Login"
                 /\ lastOp'.s = s
                 /\ lastOp'.returns # None
                 /\ session_state'[s] =
                       [logged_in |-> TRUE, user_id |-> lastOp'.returns,
                        username |-> Some(lastOp'.username)]
              \/ /\ session_state[s].logged_in
                 /\ lastOp'.op = "Logout"
                 /\ lastOp'.s = s
                 /\ session_state'[s] = Anonymous
    /\ lastOp'.op \in DashboardOps => session_state[lastOp'.s].logged_in
    /\ lastOp'.op \in AccountOps => session_state[lastOp'.s] = Anonymous
    /\ (lastOp'.op = "Login" /\ lastOp'.returns # None) =>
          session_state'[lastOp'.s].logged_in
    /\ lastOp'.op = "Logout" => session_state'[lastOp'.s] = Anonymous

\* C1: a session starts Anonymous; it becomes Authenticated, with user_id and
\* username bound, only by a Login click whose verify_user returned an id, and
\* Anonymous again only by Logout, which unbinds both; a dashboard action runs
\* only while Authenticated, login and signup only while Anonymous.
C1_SessionMachine ==
    /\ C1_Start
    /\ []C1_TwoStates
    /\ [][C1_Step]_vars

C1_Witness ==
    /\ lastOp.op = "Logout"
    /\ session_state[lastOp.s] = Anonymous
    /\ \E t \in Sessions : session_state[t].logged_in
    /\ transactions # <<>>

\* C4: a Login click whose username and password hash no stored user has
\* both of gets none from verify_user, writes nothing to the store and leaves
\* the session Anonymous, for an unknown username and a wrong password alike.
C4_LoginRejected ==
    [][(/\ lastOp'.op = "Login"
        /\ ~\E i \in 1..Len(users) :
              /\ users[i].username = lastOp'.username
              /\ users[i].password_hash = hash_password(lastOp'.password))
       => /\ lastOp'.returns = None
          /\ users' = users
          /\ transactions' = transactions
          /\ sqlite_sequence' = sqlite_sequence
          /\ session_state' = session_state
          /\ session_state'[lastOp'.s] = Anonymous
          /\ lastOp'.page.view = "login"
    ]_vars

C4_Witness ==
    /\ lastOp.op = "Login"
    /\ lastOp.returns = None
    /\ \E i \in 1..Len(users) : users[i].username = lastOp.username
    /\ session_state[lastOp.s] = Anonymous

C8_StoredValid ==
    \A r \in Range(transactions) :
        /\ r.amount > 0
        /\ r.type \in {"Income", "Expense"}
        /\ \E i \in 1..Len(users) : users[i].id = r.user_id

C8_RejectStep ==
    (lastOp'.op = "AddTransaction" /\ lastOp'.amount <= 0) =>
        /\ ~lastOp'.accepted
        /\ transactions' = transactions
        /\ users' = users
        /\ sqlite_sequence' = sqlite_sequence

\* C8: in every state the page's actions reach, every stored transaction has
\* amount > 0, type Income or Expense and the user_id of an existing user; an
\* Add Transaction click with a non-positive amount leaves the store as it was.
C8_StoredTransactionsValid ==
    /\ []C8_StoredValid
    /\ [][C8_RejectStep]_vars

C8_Witness ==
    /\ lastOp.op = "AddTransaction"
    /\ lastOp.amount <= 0
    /\ ~lastOp.accepted
    /\ Len(transactions) > 8

RECURSIVE StoredTotal(_, _, _)
\* the amounts of the stored rows of one user and one type, added up
StoredTotal(tbl, user_id, trans_type) ==
    IF tbl = <<>> THEN 0
    ELSE (IF Head(tbl).user_id = user_id /\ Head(tbl).type = trans_type
          THEN Head(tbl).amount ELSE 0)
         + StoredTotal(Tail(tbl), user_id, trans_type)

C9_Metrics(m, user_id) ==
    /\ m.total_income = StoredTotal(transactions, user_id, "Income")
    /\ m.total_expenses = StoredTotal(transactions, user_id, "Expense")
    /\ m.net_savings = StoredTotal(transactions, user_id, "Income")
                         - StoredTotal(transactions, user_id, "Expense")
    /\ m.delta.text # "nan"
    /\ (StoredTotal(transactions, user_id, "Income") = 0 => m.delta = DefaultDelta)

\* C9: net_savings is the sum of the Income amounts of the authenticated
\* user's transactions minus the sum of their Expense amounts, 0 for no
\* transactions; with an income total of zero the delta is the default 0% and
\* nothing is divided by the total.
C9_NetSavings ==
    /\ KeyMetrics(<<>>).net_savings = 0
    /\ KeyMetrics(<<>>).delta = DefaultDelta
    /\ \A s \in Sessions :
          session_state[s].logged_in =>
              C9_Metrics(KeyMetrics(get_transactions(transactions, Uid(s))), Uid(s))
    /\ (lastOp.op \in DashboardOps \cup AccountOps /\ lastOp.page.view = "dashboard") =>
          C9_Metrics(lastOp.page.metrics[1], Uid(lastOp.s))

C9_Witness ==
    /\ lastOp.op \in DashboardOps
    /\ lastOp.page.view = "dashboard"
    /\ lastOp.page.metrics[1].total_income = 0
    /\ lastOp.page.metrics[1].net_savings < 0
    /\ lastOp.page.metrics[1].delta = DefaultDelta

\* the rows of user U are the 8 sample transactions, 2 Income and 6 Expense,
\* and nothing else
C10_OwnsSample(U) ==
    LET rows == OwnedRows(transactions, U)
    IN /\ Len(rows) = 8
       /\ Len(sample_data) = 8
       /\ \A i \in 1..8 :
             /\ rows[i].date = adapt_date(sample_data[i].date)
             /\ rows[i].type = sample_data[i].type
             /\ rows[i].category = sample_data[i].category
             /\ rows[i].amount = sample_data[i].amount
             /\ rows[i].description = sample_data[i].description
       /\ Cardinality({i \in 1..8 : rows[i].type = "Income"}) = 2
       /\ Cardinality({i \in 1..8 : rows[i].type = "Expense"}) = 6

\* how many rows of a DataFrame are the k-th sample
SampleCount(df, k) ==
    Cardinality({i \in 1..Len(df) :
                    /\ df[i].description = sample_data[k].description
                    /\ df[i].amount = sample_data[k].amount})

\* the last script run rendered, for another session of the same user, some
\* rows of a sample loop that has not finished
C10_PartialSeen ==
    /\ lastOp.op \in {"Login", "AddTransaction", "ClearAllData", "Export"}
    /\ session_state[lastOp.s].logged_in
    /\ calls.deletes = 0
    /\ \E t \in Sessions :
          /\ t # lastOp.s
          /\ pc[t] = "sample"
          /\ sample_idx[t] > 1
          /\ Uid(t) = Uid(lastOp.s)
    /\ SampleCount(lastOp.page.df, 1) > SampleCount(lastOp.page.df, 8)

\* C10 as claimed: once the sample loop has run the user owns exactly the 8
\* sample transactions, in every interleaving of sessions of the same user,
\* and no other session sees a partly inserted sample set.
C10_Original ==
    /\ (lastOp.op = "LoadSampleInsert" /\ lastOp.done) => C10_OwnsSample(Uid(lastOp.s))
    /\ ~C10_PartialSeen

C10_DoneAlone ==
    (lastOp.op = "LoadSampleInsert" /\ lastOp.done /\ lastOp.alone) =>
        C10_OwnsSample(Uid(lastOp.s))

C10_Step ==
    /\ (lastOp'.op = "LoadSampleData" /\ lastOp'.pressed) =>
          /\ view[lastOp'.s] = "empty"
          /\ StoredIds(Uid(lastOp'.s)) = {}
          /\ pc'[lastOp'.s] = "sample"
          /\ transactions' = transactions
    /\ (lastOp'.op = "LoadSampleData" /\ ~lastOp'.pressed) =>
          /\ StoredIds(Uid(lastOp'.s)) # {}
          /\ pc'[lastOp'.s] = "idle"
          /\ transactions' = transactions
    /\ lastOp'.op = "LoadSampleInsert" =>
          LET k == lastOp'.idx
              n == Len(transactions)
          IN /\ pc[lastOp'.s] = "sample"
             /\ Len(transactions') = n + 1
             /\ SubSeq(transactions', 1, n) = transactions
             /\ transactions'[n + 1].user_id = Uid(lastOp'.s)
             /\ transactions'[n + 1].date = adapt_date(sample_data[k].date)
             /\ transactions'[n + 1].type = sample_data[k].type
             /\ transactions'[n + 1].amount = sample_data[k].amount
             /\ transactions'[n + 1].description = sample_data[k].description
             /\ \A i \in 1..n : transactions[i].id < transactions'[n + 1].id
             /\ lastOp'.done = (k = 8)

\* C10 as amended: the sample loop starts only from a script run that read an
\* empty list; each of its steps inserts the next sample row for the session's
\* user; when no other session changed that user's rows between that read and
\* the last insert, the user then owns exactly the 8 sample transactions.
C10_SampleLoop ==
    /\ []C10_DoneAlone
    /\ [][C10_Step]_vars

C10_Witness ==
    /\ lastOp.op = "LoadSampleInsert"
    /\ lastOp.done
    /\ lastOp.alone
    /\ C10_OwnsSample(Uid(lastOp.s))
    /\ \E t \in Sessions :
          t # lastOp.s /\ session_state[t].logged_in /\ Uid(t) = Uid(lastOp.s)

====
